---- MODULE Spec2Model ----
(***************************************************************************)
(* The lobby / relay server of src/server/server.py: the control-plane     *)
(* (TCP) listener thread, the data-plane (UDP) listener thread, the        *)
(* operator console's quit, the lock they share and the Rooms store they   *)
(* act on.                                                                 *)
(*                                                                         *)
(* The Rooms class (module rooms) is imported by server.py but its source  *)
(* is not part of src/; its operations are modelled from sections 3 and    *)
(* 4.1 of the specification.  Everything else is translated from           *)
(* server.py, read as Python 3 code (the console reads its commands with   *)
(* input() and compares them to strings, which only works on Python 3):    *)
(* socket.send() of a str raises TypeError there.                          *)
(***************************************************************************)
EXTENDS Integers, Sequences, FiniteSets, TLC

VARIABLES
    rooms,          \* the Rooms object shared by both listeners
    lock,           \* the threading.Lock: "free", or the thread holding it
    tcp_pc,         \* TcpServer.run: position of the thread
    tcp_listening,  \* TcpServer.is_listening
    req,            \* the envelope route() is working on
    exc,            \* the exception raised while handling it ("none" if none)
    conn,           \* the accepted connection: its state and the reply sent on it
    udp_pc,         \* UdpServer.run: position of the thread
    udp_listening,  \* UdpServer.is_listening
    dgram,          \* the datagram being relayed
    udp_out         \* what the datagram made the UDP socket send

vars == <<rooms, lock, tcp_pc, tcp_listening, req, exc, conn,
          udp_pc, udp_listening, dgram, udp_out>>

-----------------------------------------------------------------------------
(* Bounds of the model *)

\* identifiers register() may issue
MaxPlayers == 3
\* room identifiers create() may issue
MaxRooms == 2
\* --capacity, the room capacity the store is built with
Capacity == 2

-----------------------------------------------------------------------------
(* Values *)

\* Python's None: a key absent from the envelope
None == "None"
\* a JSON array or object where a string is expected: not hashable
Unhashable == "[]"
\* a string that is no number and names no room
Junk == "zz"
\* a numeric string
Numeric == "4"
\* an identifier the store never issued
Ghost == "ghost"

PlayerId(n) == "p" \o ToString(n)
RoomId(n) == "r" \o ToString(n)
\* the peer address of the connection that registers the n-th client: every
\* registration comes from an address of its own
AddrOf(n) == "a" \o ToString(n)

NoReply == [sent |-> FALSE, success |-> FALSE, message |-> None, listing |-> <<>>]
NoReq == [action |-> None, identifier |-> None, room_id |-> None, payload |-> None]
NoConn == [state |-> "none", reply |-> NoReply]
NoDgram == [action |-> None, identifier |-> None, room_id |-> None,
            payload |-> None, recipients |-> {}]
\* nothing sent on the UDP socket: the addresses a datagram was sent to, and
\* those for which sending it failed
NoOut == [sent |-> {}, failed |-> {}]

-----------------------------------------------------------------------------
(* The Rooms store (module rooms, modelled from the specification) *)

\* Rooms(capacity): no client, no room
EmptyRooms == [players |-> <<>>, rooms |-> <<>>, n_players |-> 0, n_rooms |-> 0]

\* self.rooms.rooms.keys()
RoomKeys(st) == {st.rooms[i].identifier : i \in DOMAIN st.rooms}

\* self.rooms.players.keys()
PlayerKeys(st) == DOMAIN st.players

\* position of room rid in the room table (creation order)
RoomIndex(st, rid) == CHOOSE i \in DOMAIN st.rooms : st.rooms[i].identifier = rid

\* a room with no free slot
IsFull(room) == Cardinality(room.players) = Capacity

\* register(addr, hint): a fresh identifier, the address stored, no room
Register(st, addr) ==
    LET id == PlayerId(st.n_players + 1)
    IN  [st EXCEPT !.n_players = @ + 1,
                   !.players = [p \in DOMAIN @ \cup {id} |->
                                  IF p = id THEN [udp_addr |-> addr, room |-> None]
                                  ELSE @[p]]]

\* create(name): a fresh room identifier, an empty room appended
Create(st, name) ==
    [st EXCEPT !.n_rooms = @ + 1,
               !.rooms = Append(@, [identifier |-> RoomId(st.n_rooms + 1),
                                    name |-> name, players |-> {}])]

\* the identifier the next create() returns
NextRoomId(st) == RoomId(st.n_rooms + 1)

\* the member added to the room's member set, the client's room reference set
AddMember(st, pid, rid) ==
    [st EXCEPT !.rooms[RoomIndex(st, rid)].players = @ \cup {pid},
               !.players[pid].room = rid]

\* join without the RoomFull check
JoinNoCapacityCheck(st, pid, rid) ==
    IF rid \notin RoomKeys(st) THEN [err |-> "RoomNotFound", st |-> st]
    ELSE [err |-> "none", st |-> AddMember(st, pid, rid)]

\* join(client_id, room_id): RoomNotFound, RoomFull, or the member added
Join(st, pid, rid) ==
    IF rid \notin RoomKeys(st) THEN [err |-> "RoomNotFound", st |-> st]
    ELSE IF IsFull(st.rooms[RoomIndex(st, rid)]) THEN [err |-> "RoomFull", st |-> st]
    ELSE [err |-> "none", st |-> AddMember(st, pid, rid)]

\* rooms with a free slot, by position
FreeRooms(st) == {i \in DOMAIN st.rooms : ~IsFull(st.rooms[i])}

\* whether join(client_id) has to create a room
NeedsNewRoom(st) == FreeRooms(st) = {}

\* join(client_id): the first room in creation order with a free slot, or a new one
AutoJoin(st, pid) ==
    IF NeedsNewRoom(st)
    THEN [room_id |-> NextRoomId(st),
          st |-> AddMember(Create(st, None), pid, NextRoomId(st))]
    ELSE LET i == CHOOSE j \in FreeRooms(st) : \A k \in FreeRooms(st) : j <= k
             rid == st.rooms[i].identifier
         IN  [room_id |-> rid, st |-> AddMember(st, pid, rid)]

\* remove_empty(): every room without members deleted
IsOccupied(room) == room.players # {}

RemoveEmpty(st) == [st EXCEPT !.rooms = SelectSeq(@, IsOccupied)]

\* send(sender_id, room_id, ...): the sender must be a client whose room is
\* room_id; the other members of that room are the targets
Send(st, sender, rid) ==
    IF sender \notin PlayerKeys(st) \/ rid \notin RoomKeys(st)
    THEN [err |-> "error", targets |-> {}]
    ELSE IF st.players[sender].room # rid
    THEN [err |-> "NotInRoom", targets |-> {}]
    ELSE [err |-> "none",
          targets |-> st.rooms[RoomIndex(st, rid)].players \ {sender}]

\* sendto(sender_id, room_id, recipient_ids, ...): as send, restricted to the
\* recipients that are members of the room
Sendto(st, sender, rid, recipients) ==
    IF sender \notin PlayerKeys(st) \/ rid \notin RoomKeys(st)
    THEN [err |-> "error", targets |-> {}]
    ELSE IF st.players[sender].room # rid
    THEN [err |-> "NotInRoom", targets |-> {}]
    ELSE [err |-> "none",
          targets |-> st.rooms[RoomIndex(st, rid)].players \cap recipients]

\* client.send_tcp(success, data, sock): the reply envelope written to sock
SendTcp(success, data) ==
    [sent |-> TRUE, success |-> success, message |-> data, listing |-> <<>>]

-----------------------------------------------------------------------------
(* Python operations the handlers rely on *)

\* int(payload)
IntError(p) ==
    IF p \in {None, Unhashable} THEN "TypeError"
    ELSE IF p = Numeric THEN "none"
    ELSE "ValueError"

\* key in dict: hashing a list or a dict raises TypeError
Hashable(v) == v # Unhashable

\* sock.send(text) with text a str
StrSendError == "TypeError"

-----------------------------------------------------------------------------
(* TcpServer.route *)

Result(st, reply, e) == [st |-> st, reply |-> reply, exc |-> e]

\* action == "register"
RouteRegister(st, addr, payload) ==
    IF IntError(payload) # "none" THEN Result(st, NoReply, IntError(payload))
    ELSE Result(Register(st, addr), SendTcp(TRUE, PlayerId(st.n_players + 1)), "none")

\* identifier not in self.rooms.players.keys()
RouteUnknown(st) ==
    IF StrSendError # "none" THEN Result(st, NoReply, StrSendError)
    ELSE Result(st, [sent |-> TRUE, success |-> FALSE,
                     message |-> "Unknown identifier", listing |-> <<>>], "none")

\* the join branch with RoomFull answered like a success
JoinReplyAlwaysTrue(err, payload, room_id) ==
    IF err = "RoomNotFound" THEN SendTcp(FALSE, room_id) ELSE SendTcp(TRUE, payload)

\* the reply of the join branch: payload on success, room_id on a domain error
JoinReply(err, payload, room_id) ==
    IF err = "none" THEN SendTcp(TRUE, payload) ELSE SendTcp(FALSE, room_id)

\* the join branch joining the room named by room_id instead of the payload
RouteJoinByRoomId(st, identifier, payload, room_id) ==
    IF ~Hashable(room_id) THEN Result(st, NoReply, "TypeError")
    ELSE IF room_id \notin RoomKeys(st)
    THEN Result(st, JoinReply("RoomNotFound", payload, room_id), "none")
    ELSE LET j == Join(st, identifier, room_id)
         IN  Result(j.st, JoinReply(j.err, payload, room_id), "none")

\* action == "join"
RouteJoin(st, identifier, payload, room_id) ==
    IF ~Hashable(payload) THEN Result(st, NoReply, "TypeError")
    ELSE IF payload \notin RoomKeys(st)
    THEN Result(st, JoinReply("RoomNotFound", payload, room_id), "none")
    ELSE LET j == Join(st, identifier, payload)
         IN  Result(j.st, JoinReply(j.err, payload, room_id), "none")

\* autojoin answered with the room the client was in before the request
RouteAutojoinStaleRoom(st, identifier) ==
    LET j == AutoJoin(st, identifier)
    IN  Result(j.st, SendTcp(TRUE, st.players[identifier].room), "none")

\* action == "autojoin"
RouteAutojoin(st, identifier) ==
    LET j == AutoJoin(st, identifier)
    IN  Result(j.st, SendTcp(TRUE, j.room_id), "none")

\* action == "get_rooms"
RouteGetRooms(st) ==
    Result(st,
           [sent |-> TRUE, success |-> TRUE, message |-> "rooms",
            listing |-> [i \in DOMAIN st.rooms |->
                           [id |-> st.rooms[i].identifier,
                            name |-> st.rooms[i].name,
                            nb_players |-> Cardinality(st.rooms[i].players),
                            capacity |-> Capacity]]],
           "none")

\* create without the creator joining the room
RouteCreateNoJoin(st, identifier, payload) ==
    Result(Create(st, payload), SendTcp(TRUE, NextRoomId(st)), "none")

\* action == "create"
RouteCreate(st, identifier, payload) ==
    LET rid == NextRoomId(st)
        j == Join(Create(st, payload), identifier, rid)
    IN  IF j.err # "none" THEN Result(j.st, NoReply, j.err)
        ELSE Result(j.st, SendTcp(TRUE, rid), "none")

\* action == 'leave': `rooms` is a local of route (assigned in the get_rooms
\* branch), unbound here
RouteLeave(st, identifier, room_id) ==
    IF ~Hashable(room_id) THEN Result(st, NoReply, "TypeError")
    ELSE IF room_id \notin RoomKeys(st) THEN Result(st, SendTcp(FALSE, room_id), "none")
    ELSE Result(st, NoReply, "UnboundLocalError")

\* else: sock is a socket, which has no send_tcp
RouteElse(st) == Result(st, NoReply, "AttributeError")

Route(st, addr, action, payload, identifier, room_id) ==
    IF action = "register" THEN RouteRegister(st, addr, payload)
    ELSE IF identifier = None THEN Result(st, NoReply, "none")
    ELSE IF identifier \notin PlayerKeys(st) THEN RouteUnknown(st)
    ELSE IF action = "join" THEN RouteJoin(st, identifier, payload, room_id)
    ELSE IF action = "autojoin" THEN RouteAutojoin(st, identifier)
    ELSE IF action = "get_rooms" THEN RouteGetRooms(st)
    ELSE IF action = "create" THEN RouteCreate(st, identifier, payload)
    ELSE IF action = "leave" THEN RouteLeave(st, identifier, room_id)
    ELSE RouteElse(st)

-----------------------------------------------------------------------------
(* Inputs *)

\* values an identifier field may take
Idents(st) == PlayerKeys(st) \cup {None, Ghost}

\* values a room field may take
RoomVals(st) == RoomKeys(st) \cup {None, Junk, Unhashable}

Envelope(a, i, r, p) == [action |-> a, identifier |-> i, room_id |-> r, payload |-> p]

\* the envelopes a control-plane connection may carry; an envelope that would
\* make the store issue more identifiers than the bounds allow is left out
TcpRequests(st) ==
    {Envelope("register", None, None, p) : p \in {None, Junk}}
    \cup {Envelope("register", None, None, Numeric) : x \in {1} \cap (1..(MaxPlayers - st.n_players))}
    \cup {Envelope("join", i, None, p) : i \in Idents(st), p \in RoomVals(st)}
    \cup {Envelope("autojoin", i, None, None) :
            i \in {k \in Idents(st) : k \notin PlayerKeys(st) \/ ~NeedsNewRoom(st)
                                      \/ st.n_rooms < MaxRooms}}
    \cup {Envelope("get_rooms", i, None, None) : i \in Idents(st)}
    \cup {Envelope("create", i, None, "lobby") :
            i \in {k \in Idents(st) : k \notin PlayerKeys(st) \/ st.n_rooms < MaxRooms}}
    \cup {Envelope("leave", i, r, None) : i \in Idents(st), r \in RoomVals(st)}
    \cup {Envelope("dance", i, None, None) : i \in Idents(st)}

\* recipient lists of a sendto datagram
RecipientLists(st) ==
    {{}} \cup {s \in SUBSET (PlayerKeys(st) \cup {Ghost}) : Cardinality(s) = 2}

\* the datagrams for room rid the data plane may receive
UdpDatagrams(st, rid) ==
    {[NoDgram EXCEPT !.room_id = rid]}
    \cup {[action |-> a, identifier |-> i, room_id |-> rid, payload |-> p, recipients |-> {}] :
           a \in {"send", "sendto"}, i \in PlayerKeys(st) \cup {Ghost}, p \in {None, "message"}}
    \cup {[action |-> "sendto", identifier |-> i, room_id |-> rid,
           payload |-> "recipients+message", recipients |-> s] :
           i \in PlayerKeys(st) \cup {Ghost}, s \in RecipientLists(st)}


-----------------------------------------------------------------------------
(* State after construction: main_loop has started both threads *)

Init ==
    /\ rooms = EmptyRooms
    /\ lock = "free"
    /\ tcp_pc = "loop"
    /\ tcp_listening = TRUE
    /\ req = NoReq
    /\ exc = "none"
    /\ conn = NoConn
    /\ udp_pc = "loop"
    /\ udp_listening = TRUE
    /\ dgram = NoDgram
    /\ udp_out = NoOut

tcp_vars == <<tcp_pc, tcp_listening, req, exc, conn>>
udp_vars == <<udp_pc, udp_listening, dgram, udp_out>>

-----------------------------------------------------------------------------
(* TcpServer.run *)

\* what follows the try block of an accepted connection: the KeyError and
\* ValueError handlers answer with conn.send(<str>), any other exception
\* leaves run(); conn.close() is reached only when nothing propagates
TcpAfter(e) ==
    IF e = "none" THEN [pc |-> "loop", state |-> "closed"]
    ELSE IF e \in {"KeyError", "ValueError"} /\ StrSendError = "none"
    THEN [pc |-> "loop", state |-> "closed"]
    ELSE [pc |-> "crashed", state |-> "open"]

\* a sweep that deletes the rooms that are full
TcpSweepFullRooms ==
    /\ tcp_pc = "loop" /\ tcp_listening
    /\ rooms' = [rooms EXCEPT !.rooms = SelectSeq(@, LAMBDA r : ~IsFull(r))]
    /\ tcp_pc' = "swept"
    /\ UNCHANGED <<lock, tcp_listening, req, exc, conn, udp_vars>>

\* the 60 s timer has expired: remove_empty(), called without the lock; the
\* thread goes on to accept()
TcpSweep ==
    /\ tcp_pc = "loop" /\ tcp_listening
    /\ rooms' = RemoveEmpty(rooms)
    /\ tcp_pc' = "swept"
    /\ UNCHANGED <<lock, tcp_listening, req, exc, conn, udp_vars>>

\* self.sock.accept() times out after a sweep: continue
TcpTimeout ==
    /\ tcp_pc = "swept"
    /\ tcp_pc' = "loop"
    /\ UNCHANGED <<rooms, lock, tcp_listening, req, exc, conn, udp_vars>>

\* self.sock.accept() returns a connection, after a sweep or without one (a
\* timeout without a sweep only repeats the loop)
TcpAccept ==
    /\ \/ tcp_pc = "loop" /\ tcp_listening
       \/ tcp_pc = "swept"
    /\ tcp_pc' = "recv"
    /\ conn' = [state |-> "open", reply |-> NoReply]
    /\ req' = NoReq
    /\ exc' = "none"
    /\ UNCHANGED <<rooms, lock, tcp_listening, udp_vars>>

\* conn.recv and json.loads, data['action'] and the optional keys; recv has no
\* timeout and returns when the client has sent something or has closed.  shape is
\* what the bytes received are: an object with an action, an object without
\* one (KeyError), JSON that is no object (TypeError on data['action']) or no
\* JSON at all (ValueError)
TcpRecv ==
    /\ tcp_pc = "recv"
    /\ \E shape \in {"envelope", "KeyError", "TypeError", "ValueError"} :
         IF shape = "envelope"
         THEN /\ tcp_pc' = "acquire"
              /\ UNCHANGED <<exc, conn>>
         ELSE /\ tcp_pc' = TcpAfter(shape).pc
              /\ conn' = [conn EXCEPT !.state = TcpAfter(shape).state]
              /\ UNCHANGED exc
    /\ UNCHANGED <<rooms, lock, tcp_listening, req, udp_vars>>

\* self.lock.acquire()
TcpAcquire ==
    /\ tcp_pc = "acquire"
    /\ lock = "free"
    /\ lock' = "tcp"
    /\ tcp_pc' = "route"
    /\ UNCHANGED <<rooms, tcp_listening, req, exc, conn, udp_vars>>

\* self.route(conn, addr, action, payload, identifier, room_id); the fields
\* of the envelope are bound here, where route reads them
TcpRoute ==
    /\ tcp_pc = "route"
    /\ \E r \in TcpRequests(rooms) :
         LET res == Route(rooms, AddrOf(rooms.n_players + 1),
                          r.action, r.payload, r.identifier, r.room_id)
         IN  /\ req' = r
             /\ rooms' = res.st
             /\ conn' = [conn EXCEPT !.reply = res.reply]
             /\ exc' = res.exc
    /\ tcp_pc' = "release"
    /\ UNCHANGED <<lock, tcp_listening, udp_vars>>

\* finally: self.lock.release(); then the handlers and conn.close().  The
\* locals of the iteration are dead afterwards
TcpRelease ==
    /\ tcp_pc = "release"
    /\ lock' = "free"
    /\ tcp_pc' = TcpAfter(exc).pc
    /\ conn' = [state |-> TcpAfter(exc).state, reply |-> NoReply]
    /\ req' = NoReq
    /\ exc' = "none"
    /\ UNCHANGED <<rooms, tcp_listening, udp_vars>>

\* while self.is_listening fails: self.stop()
TcpStop ==
    /\ tcp_pc = "loop" /\ ~tcp_listening
    /\ tcp_pc' = "stopped"
    /\ UNCHANGED <<rooms, lock, tcp_listening, req, exc, conn, udp_vars>>

-----------------------------------------------------------------------------
(* UdpServer.run *)

\* recvfrom and json.loads, the four optional keys, and the room lookup made
\* before the lock is taken.  shape as for the control plane; a missing key
\* is None here
UdpRecv ==
    /\ udp_pc = "loop" /\ udp_listening
    /\ \E shape \in {"envelope", "TypeError", "ValueError"}, rid \in RoomVals(rooms) :
         /\ udp_out' = NoOut
         /\ IF shape = "ValueError"
            THEN /\ udp_pc' = "loop" /\ dgram' = NoDgram
            ELSE IF shape = "TypeError" \/ ~Hashable(rid)
            THEN /\ udp_pc' = "crashed" /\ dgram' = NoDgram
            ELSE IF rid \notin RoomKeys(rooms)
            THEN /\ udp_pc' = "loop" /\ dgram' = NoDgram
            ELSE /\ udp_pc' = "acquire" /\ dgram' = [NoDgram EXCEPT !.room_id = rid]
    /\ UNCHANGED <<rooms, lock, tcp_vars, udp_listening>>

\* self.lock.acquire()
UdpAcquire ==
    /\ udp_pc = "acquire"
    /\ lock = "free"
    /\ lock' = "udp"
    /\ udp_pc' = "relay"
    /\ UNCHANGED <<rooms, tcp_vars, udp_listening, dgram, udp_out>>

\* a relay in which send also delivers to the sender
RelayTargetsEcho(st, d) ==
    IF d.action = "send" /\ d.payload # None
    THEN IF Send(st, d.identifier, d.room_id).err = "none"
         THEN st.rooms[RoomIndex(st, d.room_id)].players
         ELSE {}
    ELSE IF d.action = "sendto" /\ d.payload = "recipients+message"
    THEN Sendto(st, d.identifier, d.room_id, d.recipients).targets
    ELSE {}

\* a relay in which sendto ignores the recipient list
RelayTargetsSendtoAll(st, d) ==
    IF d.action = "send" /\ d.payload # None
    THEN Send(st, d.identifier, d.room_id).targets
    ELSE IF d.action = "sendto" /\ d.payload = "recipients+message"
    THEN Send(st, d.identifier, d.room_id).targets
    ELSE {}

\* the targets of the relay; every exception of the call is swallowed
RelayTargets(st, d) ==
    IF d.action = "send" /\ d.payload # None
    THEN Send(st, d.identifier, d.room_id).targets
    ELSE IF d.action = "sendto" /\ d.payload = "recipients+message"
    THEN Sendto(st, d.identifier, d.room_id, d.recipients).targets
    ELSE {}

\* the stored data-plane addresses of the clients ids
Addresses(st, ids) == {st.players[t].udp_addr : t \in ids}

\* action == "send" / "sendto" under the lock: the message goes to the stored
\* address of every target; sending it to the clients in failed fails, which
\* does not stop the others
UdpRelay ==
    /\ udp_pc = "relay"
    /\ \E d \in UdpDatagrams(rooms, dgram.room_id) :
         \E failed \in SUBSET RelayTargets(rooms, d) :
            /\ dgram' = d
            /\ udp_out' = [sent |-> Addresses(rooms, RelayTargets(rooms, d) \ failed),
                           failed |-> Addresses(rooms, failed)]
    /\ udp_pc' = "release"
    /\ UNCHANGED <<rooms, lock, tcp_vars, udp_listening>>

\* finally: self.lock.release()
UdpRelease ==
    /\ udp_pc = "release"
    /\ lock' = "free"
    /\ udp_pc' = "loop"
    /\ dgram' = NoDgram
    /\ udp_out' = NoOut
    /\ UNCHANGED <<rooms, tcp_vars, udp_listening>>

\* while self.is_listening fails: self.stop()
UdpStop ==
    /\ udp_pc = "loop" /\ ~udp_listening
    /\ udp_pc' = "stopped"
    /\ UNCHANGED <<rooms, lock, tcp_vars, udp_listening, dgram, udp_out>>

-----------------------------------------------------------------------------
(* main_loop *)

\* cmd == "quit": both flags cleared
Quit ==
    /\ tcp_listening \/ udp_listening
    /\ tcp_listening' = FALSE
    /\ udp_listening' = FALSE
    /\ UNCHANGED <<rooms, lock, tcp_pc, req, exc, conn, udp_pc, dgram, udp_out>>

Next ==
    \/ TcpSweep \/ TcpTimeout \/ TcpAccept \/ TcpRecv \/ TcpAcquire \/ TcpRoute \/ TcpRelease \/ TcpStop
    \/ UdpRecv \/ UdpAcquire \/ UdpRelay \/ UdpRelease \/ UdpStop
    \/ Quit

Spec == Init /\ [][Next]_vars


-----------------------------------------------------------------------------
(* Properties *)

\* the member set of room rid in store st
Members(st, rid) == st.rooms[RoomIndex(st, rid)].players

\* the step in which route() handles an envelope of the given action sent by
\* a registered client
Routed(action) ==
    /\ tcp_pc = "route" /\ tcp_pc' = "release"
    /\ req'.action = action
    /\ req'.identifier \in PlayerKeys(rooms)

\* route() has just handled an envelope of the given action from a registered client
Handled(action) ==
    /\ tcp_pc = "release"
    /\ req.action = action
    /\ req.identifier \in PlayerKeys(rooms)

\* C1: in every reachable state every room holds at most Capacity members
C1_CapacityInvariant ==
    \A i \in DOMAIN rooms.rooms : Cardinality(rooms.rooms[i].players) <= Capacity

\* C1 witness: a client outside a room that holds Capacity members has asked
\* to join it and was refused
C1_Witness ==
    /\ Handled("join")
    /\ req.payload \in RoomKeys(rooms)
    /\ Cardinality(Members(rooms, req.payload)) = Capacity
    /\ req.identifier \notin Members(rooms, req.payload)
    /\ rooms.n_players = MaxPlayers

\* C2: a leave request from a member of the existing room room_id is answered
\* with a success reply naming the room; afterwards the client is not in the
\* room's member set and its room reference is empty
C2_LeaveByMember ==
    [][(/\ Routed("leave")
        /\ req'.room_id \in RoomKeys(rooms)
        /\ req'.identifier \in Members(rooms, req'.room_id))
       => (/\ conn'.reply = SendTcp(TRUE, req'.room_id)
           /\ req'.room_id \in RoomKeys(rooms')
           /\ req'.identifier \notin Members(rooms', req'.room_id)
           /\ rooms'.players[req'.identifier].room = None)]_vars

\* C3: a leave request from a registered client for an existing room it is not
\* a member of is answered with a failure reply and leaves the Store unchanged
C3_LeaveByNonMember ==
    [][(/\ Routed("leave")
        /\ req'.room_id \in RoomKeys(rooms)
        /\ req'.identifier \notin Members(rooms, req'.room_id))
       => (/\ conn'.reply.sent /\ ~conn'.reply.success
           /\ rooms' = rooms)]_vars

\* C4: every request other than register whose identifier is absent or not a
\* known client is answered with a failure reply and leaves the Store unchanged
C4_UnknownIdentifierRejected ==
    [][(/\ tcp_pc = "route" /\ tcp_pc' = "release"
        /\ req'.action # "register"
        /\ req'.identifier \notin PlayerKeys(rooms))
       => (/\ conn'.reply.sent /\ ~conn'.reply.success
           /\ rooms' = rooms)]_vars

\* C5: a request from a registered client with an action outside register,
\* create, join, autojoin, leave, get_rooms is answered with a failure reply
\* and leaves the Store unchanged
C5_UnknownActionRejected ==
    [][(/\ tcp_pc = "route" /\ tcp_pc' = "release"
        /\ req'.identifier \in PlayerKeys(rooms)
        /\ req'.action \notin {"register", "create", "join", "autojoin",
                               "leave", "get_rooms"})
       => (/\ conn'.reply.sent /\ ~conn'.reply.success
           /\ rooms' = rooms)]_vars

\* C6: every accepted connection is closed by the listener whatever the
\* outcome of its request: once the listener is back at the head of its loop
\* or has left run(), no accepted connection is still open
C6_ConnectionClosed ==
    tcp_pc \in {"loop", "stopped", "crashed"} => conn.state # "open"

\* C7: the control-plane listener leaves its accept loop only after quit has
\* cleared its flag
C7_TcpLeavesLoopOnlyAfterQuit ==
    tcp_pc \in {"stopped", "crashed"} => ~tcp_listening

\* C8: the data-plane listener leaves its receive loop only after quit has
\* cleared its flag, whatever datagram it receives, and it does not hold the
\* lock once it is done with a datagram
C8_UdpLeavesLoopOnlyAfterQuit ==
    /\ udp_pc \in {"stopped", "crashed"} => ~udp_listening
    /\ udp_pc \in {"loop", "stopped", "crashed"} => lock # "udp"

\* C9: a join for a room identifier that is not in the Store, or for a room
\* that holds Capacity members, is answered with a failure reply and leaves
\* the Store unchanged; a join for a room with a free slot is answered with
\* success and makes the client a member, so that a room holding Capacity - 1
\* members admits one non-member and refuses the next
C9_JoinFailsWhenUnknownOrFull ==
    [][(Routed("join") /\ Hashable(req'.payload))
       => IF req'.payload \notin RoomKeys(rooms)
             \/ Cardinality(Members(rooms, req'.payload)) = Capacity
          THEN /\ conn'.reply.sent /\ ~conn'.reply.success
               /\ rooms' = rooms
          ELSE /\ conn'.reply = SendTcp(TRUE, req'.payload)
               /\ Members(rooms', req'.payload)
                    = Members(rooms, req'.payload) \cup {req'.identifier}]_vars

\* C9 witness: the room holds Capacity members, a client that is not one of
\* them has asked to join and got a failure reply
C9_Witness ==
    /\ Handled("join")
    /\ req.payload \in RoomKeys(rooms)
    /\ Cardinality(Members(rooms, req.payload)) = Capacity
    /\ req.identifier \notin Members(rooms, req.payload)
    /\ conn.reply.sent /\ ~conn.reply.success

HasFreeSlot(st) == {i \in DOMAIN st.rooms : Cardinality(st.rooms[i].players) < Capacity}

\* every room of st other than the one at position i is in st2, unchanged
OtherRoomsKept(st, st2, i) ==
    \A k \in DOMAIN st.rooms : k # i => st2.rooms[k] = st.rooms[k]

\* C11: an autojoin request from a registered client is answered with success
\* and the identifier of the room joined, which is the first room in creation
\* order with a free slot; when no room has one, exactly one room is created
\* and the client joins it; no other room is created or changed
C11_Autojoin ==
    [][Routed("autojoin")
       => IF HasFreeSlot(rooms) = {}
          THEN LET n == Len(rooms.rooms) + 1
               IN  /\ Len(rooms'.rooms) = n
                   /\ OtherRoomsKept(rooms, rooms', n)
                   /\ rooms'.rooms[n].identifier \notin RoomKeys(rooms)
                   /\ rooms'.rooms[n].players = {req'.identifier}
                   /\ conn'.reply = SendTcp(TRUE, rooms'.rooms[n].identifier)
          ELSE LET i == CHOOSE j \in HasFreeSlot(rooms) :
                           \A k \in HasFreeSlot(rooms) : j <= k
               IN  /\ Len(rooms'.rooms) = Len(rooms.rooms)
                   /\ OtherRoomsKept(rooms, rooms', i)
                   /\ rooms'.rooms[i].identifier = rooms.rooms[i].identifier
                   /\ rooms'.rooms[i].players = rooms.rooms[i].players \cup {req'.identifier}
                   /\ conn'.reply = SendTcp(TRUE, rooms.rooms[i].identifier)]_vars

\* C11 witness: the first room is full, the second one was not, and an
\* autojoin request was answered with the second room
C11_Witness ==
    /\ Handled("autojoin")
    /\ rooms.n_rooms = 2
    /\ Cardinality(Members(rooms, RoomId(1))) = Capacity
    /\ Cardinality(Members(rooms, RoomId(2))) = 2
    /\ conn.reply = SendTcp(TRUE, RoomId(2))

\* C12: the identifier a register reply carries is a known client, so the next
\* create request passes the identifier check; a create request from a
\* registered client never fails: it adds one room with an identifier no room
\* had before, whatever the name, the name being kept as given, the reply
\* names that room, and its member set is exactly the creator
C12_RegisterThenCreate ==
    [][/\ (/\ tcp_pc = "route" /\ tcp_pc' = "release"
           /\ req'.action = "register"
           /\ conn'.reply.sent /\ conn'.reply.success)
          => /\ conn'.reply.message \in PlayerKeys(rooms')
             /\ Route(rooms', AddrOf(0), "create", "lobby",
                      conn'.reply.message, None).reply.success
       /\ Routed("create")
          => LET n == Len(rooms.rooms) + 1
             IN  /\ Len(rooms'.rooms) = n
                 /\ rooms'.rooms[n].identifier \notin RoomKeys(rooms)
                 /\ rooms'.rooms[n].name = req'.payload
                 /\ rooms'.rooms[n].players = {req'.identifier}
                 /\ Cardinality(rooms'.rooms[n].players) = 1
                 /\ conn'.reply = SendTcp(TRUE, rooms'.rooms[n].identifier)]_vars

\* C12 witness: a second room of the same name has been created; the reply
\* names it, it is not the first room, and the creator is its only member
C12_Witness ==
    /\ Handled("create")
    /\ Len(rooms.rooms) = 2
    /\ rooms.rooms[1].name = rooms.rooms[2].name
    /\ rooms.rooms[1].identifier # rooms.rooms[2].identifier
    /\ conn.reply = SendTcp(TRUE, rooms.rooms[2].identifier)
    /\ rooms.rooms[2].players = {req.identifier}

\* C13: every register request, whatever its payload, is answered with a
\* success reply carrying an identifier no client had before; it leaves every
\* existing client record and every room as they were
C13_RegisterNeverFails ==
    [][(/\ tcp_pc = "route" /\ tcp_pc' = "release"
        /\ req'.action = "register")
       => (/\ conn'.reply.sent /\ conn'.reply.success
           /\ conn'.reply.message \notin PlayerKeys(rooms)
           /\ conn'.reply.message \in PlayerKeys(rooms')
           /\ \A p \in PlayerKeys(rooms) : rooms'.players[p] = rooms.players[p]
           /\ rooms'.rooms = rooms.rooms)]_vars

\* the rooms get_rooms would list in store st
Listed(st) == RouteGetRooms(st).reply.listing

Relayed(action) ==
    /\ udp_pc = "relay" /\ udp_pc' = "release"
    /\ dgram'.action = action

\* client pid is registered in st and its room reference names rid
CurrentRoomIs(st, pid, rid) ==
    pid \in PlayerKeys(st) /\ st.players[pid].room = rid

\* the addresses the last relay sent a datagram to, delivered or not
Attempted(out) == out.sent \cup out.failed

\* C15: a send datagram is relayed only when its sender is a registered client
\* whose room reference names the datagram's room_id; a datagram that carries
\* a message is then sent to the stored address of every other member of that
\* room and to no other address: not to the sender's and not to that of a
\* client outside the room; a send from anyone else sends nothing, and nothing
\* is sent outside a relay
C15_SendRelay ==
    [][/\ Relayed("send")
          => LET d == dgram'
                 others == Members(rooms, d.room_id) \ {d.identifier}
             IN  /\ Attempted(udp_out') # {} => CurrentRoomIs(rooms, d.identifier, d.room_id)
                 /\ (CurrentRoomIs(rooms, d.identifier, d.room_id) /\ d.payload # None)
                    => Attempted(udp_out') = Addresses(rooms, others)
                 /\ \A p \in PlayerKeys(rooms) :
                       (p = d.identifier \/ p \notin Members(rooms, d.room_id))
                       => rooms.players[p].udp_addr \notin Attempted(udp_out')
                 /\ udp_out'.sent \cap udp_out'.failed = {}
                 /\ rooms' = rooms
       /\ udp_pc' # "release" => udp_out' = NoOut]_vars

\* C15 witness: a member of a two-member room has sent to its room while a
\* third client is registered outside it; the datagram went to the other
\* member only
C15_Witness ==
    /\ udp_pc = "release"
    /\ dgram.action = "send"
    /\ CurrentRoomIs(rooms, dgram.identifier, dgram.room_id)
    /\ Cardinality(Members(rooms, dgram.room_id)) = 2
    /\ PlayerKeys(rooms) \ Members(rooms, dgram.room_id) # {}
    /\ udp_out.sent = Addresses(rooms, Members(rooms, dgram.room_id) \ {dgram.identifier})
    /\ Cardinality(udp_out.sent) = 1

\* C16: a sendto datagram with a recipient list and a message, from a client
\* whose room reference names room_id, is sent exactly to the addresses of the
\* clients that are in the recipient list and in the room's member set; the
\* other recipients get nothing and raise nothing, the data plane going on to
\* release the lock; a sendto from anyone else sends nothing
C16_SendtoRelay ==
    [][(Relayed("sendto") /\ dgram'.payload = "recipients+message")
       => LET d == dgram'
              valid == d.recipients \cap Members(rooms, d.room_id)
          IN  /\ CurrentRoomIs(rooms, d.identifier, d.room_id)
                 => Attempted(udp_out') = Addresses(rooms, valid)
              /\ ~CurrentRoomIs(rooms, d.identifier, d.room_id)
                 => Attempted(udp_out') = {}
              /\ \A p \in PlayerKeys(rooms) \ valid :
                    rooms.players[p].udp_addr \notin Attempted(udp_out')
              /\ rooms' = rooms]_vars

\* C16 witness: a sendto whose recipient list holds one member of the room and
\* one registered client outside it was delivered to the member only
C16_Witness ==
    /\ udp_pc = "release"
    /\ dgram.action = "sendto"
    /\ CurrentRoomIs(rooms, dgram.identifier, dgram.room_id)
    /\ Cardinality(dgram.recipients \cap Members(rooms, dgram.room_id)) = 1
    /\ Cardinality((dgram.recipients \cap PlayerKeys(rooms)) \ Members(rooms, dgram.room_id)) = 1
    /\ udp_out.sent = Addresses(rooms, dgram.recipients \cap Members(rooms, dgram.room_id))
    /\ udp_out.failed = {}

\* C17: every access to the Store happens while the accessing listener holds
\* the lock: the sweep and the dispatch of the control plane hold it as "tcp",
\* the room lookup and the relay of the data plane hold it as "udp"; so the
\* sweep never runs while the data plane is inside a relay
C17_StoreAccessUnderLock ==
    [][/\ (tcp_pc = "loop" /\ tcp_pc' = "swept") => (lock = "tcp" /\ udp_pc # "relay")
       /\ (tcp_pc = "route" /\ tcp_pc' # "route") => lock = "tcp"
       /\ (udp_pc = "loop" /\ udp_pc' = "acquire") => lock = "udp"
       /\ (udp_pc = "relay" /\ udp_pc' = "release") => lock = "udp"]_vars

\* C18: no step that writes a reply to a control-plane connection is taken
\* while the control plane holds the lock, and no step that sends a datagram
\* to a peer is taken while the data plane holds it
C18_NoNetworkIoUnderLock ==
    [][/\ (~conn.reply.sent /\ conn'.reply.sent) => lock # "tcp"
       /\ (Attempted(udp_out) = {} /\ Attempted(udp_out') # {}) => lock # "udp"]_vars

\* a step the control-plane thread takes without waiting for a client
TcpOwnStep == TcpTimeout \/ TcpAcquire \/ TcpRoute \/ TcpRelease \/ TcpStop

\* a step the data-plane thread takes without waiting for a client
UdpOwnStep == UdpAcquire \/ UdpRelay \/ UdpRelease \/ UdpStop

\* C19: once quit has cleared the flags, a listener thread that is still
\* running has closed its socket and left, or can take its next step towards
\* that on its own, or waits only for the lock the other thread is about to
\* release; it never depends on a client to get there, a client that has
\* connected without sending anything included
C19_ShutdownNeedsNoClient ==
    /\ (~tcp_listening /\ tcp_pc \notin {"stopped", "crashed"})
       => \/ ENABLED TcpOwnStep
          \/ tcp_pc = "acquire" /\ lock = "udp" /\ ENABLED UdpOwnStep
    /\ (~udp_listening /\ udp_pc \notin {"stopped", "crashed"})
       => \/ ENABLED UdpOwnStep
          \/ udp_pc = "acquire" /\ lock = "tcp" /\ ENABLED TcpOwnStep

\* the rooms of st whose member set holds client pid
RoomsOf(st, pid) == {rid \in RoomKeys(st) : pid \in Members(st, rid)}

\* C20: in every reachable state each client is in the member set of at most
\* one room, and its room reference names room r exactly when it is in r's
\* member set (so a reference never names a room that is gone)
C20_SingleRoomMembership ==
    \A p \in PlayerKeys(rooms) :
       /\ Cardinality(RoomsOf(rooms, p)) <= 1
       /\ rooms.players[p].room \in RoomKeys(rooms) \cup {None}
       /\ \A rid \in RoomKeys(rooms) :
             rooms.players[p].room = rid <=> rid \in RoomsOf(rooms, p)


====
